---- MODULE Spec2Model ----
(***************************************************************************)
(* Model of the heuristic tokenizer of nnikolov3/ai-tokenizer:             *)
(* Tokenizer.Normalize (NFD decomposition + per-rune folding) and          *)
(* Tokenizer.EstimateTokens (single-pass run/special counting).            *)
(*                                                                         *)
(* A text is a sequence of Unicode code points (the runes that Go's        *)
(* `range` yields).  A Go string constant such as "ss" is the sequence of  *)
(* its code points, <<115, 115>>.                                          *)
(***************************************************************************)
EXTENDS Integers, Sequences, FiniteSets, TLC

(***************************************************************************)
(* Bounds of the model.                                                    *)
(***************************************************************************)
\* longest text enumerated over SeqAlphabet
MaxLen == 3

(***************************************************************************)
(* Program constants.                                                      *)
(***************************************************************************)
DefaultModel == "simple"
CharsPerToken == 2
maxASCII == 127

ligatureSharpS == <<115, 115>>
ligatureAE == <<97, 101>>
ligatureOE == <<111, 101>>
ligatureO == <<111>>
ligatureTH == <<116, 104>>
ligatureD == <<100>>

(***************************************************************************)
(* The Unicode data the code consults (package unicode, x/text norm),      *)
(* restricted to the code points of the modelled universe.                 *)
(***************************************************************************)
ASCIILetters == (65..90) \cup (97..122)
ASCIIDigits == 48..57

\* category Mn (nonspacing marks): U+0300..U+036F, U+20D0..U+20DC
MnTable == (768..879) \cup (8400..8412)

\* marks that are not Mn: U+0903 (Mc), U+20DD (Me)
OtherMarks == {2307, 8413}

\* letters above U+007F of the universe (categories Lu, Ll, Lo)
NonASCIILetters ==
    { 198, 201, 208, 216, 222, 223, 224, 230, 233, 239, 240, 248, 252, 254,
      338, 339, 508, 1080, 1081, 1087, 7871, 8490, 19990, 30028, 64257 }

\* decimal digits above U+007F of the universe (category Nd): U+0661
NonASCIIDigits == {1633}

\* symbols above U+007F of the universe: U+20AC, U+FFFD, U+1F600
NonASCIISymbols == {8364, 65533, 128512}

IsMn(r) == r \in MnTable

IsLetter(r) == r \in ASCIILetters \cup NonASCIILetters

IsDigit(r) == r \in ASCIIDigits \cup NonASCIIDigits

\* canonical combining class: U+0323 is 220 (below), the other Mn marks of
\* the universe are 230 (above), every other code point is a starter (0)
ccc(r) == IF r = 803 THEN 220 ELSE IF r \in MnTable THEN 230 ELSE 0

\* full canonical decompositions of the precomposed code points of the universe
CanonicalDecomposition ==
    (201 :> <<69, 769>>) @@ (224 :> <<97, 768>>) @@ (233 :> <<101, 769>>) @@
    (239 :> <<105, 776>>) @@ (252 :> <<117, 776>>) @@ (508 :> <<198, 769>>) @@
    (1081 :> <<1080, 774>>) @@ (7871 :> <<101, 770, 769>>) @@
    (8490 :> <<75>>)

Decompose(r) ==
    IF r \in DOMAIN CanonicalDecomposition THEN CanonicalDecomposition[r] ELSE <<r>>

RECURSIVE DecomposeAll(_)
DecomposeAll(s) ==
    IF s = <<>> THEN <<>> ELSE Decompose(Head(s)) \o DecomposeAll(Tail(s))

Front(s) == SubSeq(s, 1, Len(s) - 1)

Last(s) == s[Len(s)]

\* canonical ordering: a non-starter moves left past non-starters of a
\* greater combining class
RECURSIVE InsertMark(_, _)
InsertMark(acc, r) ==
    IF acc = <<>> \/ ccc(r) = 0 \/ ccc(Last(acc)) = 0 \/ ccc(Last(acc)) <= ccc(r)
    THEN Append(acc, r)
    ELSE Append(InsertMark(Front(acc), r), Last(acc))

RECURSIVE CanonicalOrder(_)
CanonicalOrder(s) ==
    IF s = <<>> THEN <<>> ELSE InsertMark(CanonicalOrder(Front(s)), Last(s))

\* variant: precomposed code points are left as they are
NFDNoDecompose(text) == CanonicalOrder(text)

\* norm.NFD.String: canonical decomposition followed by canonical ordering
NFD(text) == CanonicalOrder(DecomposeAll(text))

(***************************************************************************)
(* The tokenizer's pure functions.                                         *)
(***************************************************************************)

\* the map literal of foldSpecialRune
specialRuneMap ==
    (223 :> ligatureSharpS) @@
    (198 :> ligatureAE) @@ (230 :> ligatureAE) @@
    (338 :> ligatureOE) @@ (339 :> ligatureOE) @@
    (216 :> ligatureO) @@ (248 :> ligatureO) @@
    (222 :> ligatureTH) @@ (254 :> ligatureTH) @@
    (208 :> ligatureD) @@ (240 :> ligatureD)

\* variant: a code point without a table entry is replaced by "[?]"
foldSpecialRuneMarker(inputRune) ==
    IF inputRune \in DOMAIN specialRuneMap THEN specialRuneMap[inputRune]
    ELSE <<91, 63, 93>>

\* variant: a code point without a table entry is replaced by "?"
foldSpecialRunePlaceholder(inputRune) ==
    IF inputRune \in DOMAIN specialRuneMap THEN specialRuneMap[inputRune] ELSE <<63>>

\* variant: the uppercase entries keep their case ("AE", "OE", "O", "TH", "D")
foldSpecialRuneCased(inputRune) ==
    IF inputRune \in {198, 338, 216, 222, 208}
    THEN [i \in 1..Len(specialRuneMap[inputRune]) |-> specialRuneMap[inputRune][i] - 32]
    ELSE IF inputRune \in DOMAIN specialRuneMap THEN specialRuneMap[inputRune] ELSE <<>>

\* variant: the uppercase ligature is lowercased instead of folded
foldSpecialRuneLowered(inputRune) ==
    IF inputRune = 198 THEN <<230>>
    ELSE IF inputRune \in DOMAIN specialRuneMap THEN specialRuneMap[inputRune] ELSE <<>>

\* variant: the entry of U+00F8 is missing
foldSpecialRuneMissing(inputRune) ==
    IF inputRune \in DOMAIN specialRuneMap \ {248} THEN specialRuneMap[inputRune] ELSE <<>>

foldSpecialRune(inputRune) ==
    IF inputRune \in DOMAIN specialRuneMap THEN specialRuneMap[inputRune] ELSE <<>>

\* variant: the pass-through limit is Latin-1 (0xFF) instead of ASCII
normalizeRuneLatin1(inputRune) ==
    IF IsMn(inputRune) THEN <<>>
    ELSE IF inputRune <= 255 THEN <<inputRune>>
    ELSE foldSpecialRune(inputRune)

normalizeRune(inputRune) ==
    IF IsMn(inputRune) THEN <<>>
    ELSE IF inputRune <= maxASCII THEN <<inputRune>>
    ELSE foldSpecialRune(inputRune)

\* variant: white space is not treated as special
isSpecialCharNoSpace(inputRune) ==
    ~IsLetter(inputRune) /\ ~IsDigit(inputRune) /\ inputRune \notin {9, 10, 13, 32}

isSpecialChar(inputRune) == ~IsLetter(inputRune) /\ ~IsDigit(inputRune)

\* variant: integer division, rounding down
addAccumulatedCharTokensFloor(charCount) ==
    IF charCount <= 0 THEN 0 ELSE charCount \div CharsPerToken

\* variant: remainder instead of quotient
addAccumulatedCharTokensModulo(charCount) ==
    IF charCount <= 0 THEN 0 ELSE charCount % CharsPerToken

\* variant: -1 is returned when nothing was accumulated
addAccumulatedCharTokensSentinel(charCount) ==
    IF charCount <= 0 THEN -1
    ELSE IF (charCount \div CharsPerToken) * CharsPerToken = charCount
         THEN charCount \div CharsPerToken
         ELSE (charCount \div CharsPerToken) + 1

\* int(math.Ceil(float64(charCount) / CharsPerToken))
addAccumulatedCharTokens(charCount) ==
    IF charCount <= 0 THEN 0
    ELSE IF (charCount \div CharsPerToken) * CharsPerToken = charCount
         THEN charCount \div CharsPerToken
         ELSE (charCount \div CharsPerToken) + 1

\* number of bytes of the UTF-8 encoding of a code point
UTF8Len(r) == IF r <= 127 THEN 1 ELSE IF r <= 2047 THEN 2 ELSE IF r <= 65535 THEN 3 ELSE 4

\* len(s) of a Go string holding the code points s
RECURSIVE ByteLen(_)
ByteLen(s) == IF s = <<>> THEN 0 ELSE UTF8Len(Head(s)) + ByteLen(Tail(s))

RECURSIVE processText(_)
processText(nfd) ==
    IF nfd = <<>> THEN <<>>
    ELSE LET out == normalizeRune(Head(nfd))
         IN  IF out # <<>> THEN out \o processText(Tail(nfd))
             ELSE processText(Tail(nfd))

Normalize(text) == IF text = <<>> THEN <<>> ELSE processText(NFD(text))

\* the loop of countTokensFromNormalizedText over the rest of the text
RECURSIVE countLoop(_, _, _)
countLoop(rest, tokenCount, charCount) ==
    IF rest = <<>> THEN tokenCount + addAccumulatedCharTokens(charCount)
    ELSE IF isSpecialChar(Head(rest))
         THEN countLoop(Tail(rest), tokenCount + addAccumulatedCharTokens(charCount) + 1, 0)
         ELSE countLoop(Tail(rest), tokenCount, charCount + 1)

countTokensFromNormalizedText(normalized) == countLoop(normalized, 0, 0)

EstimateTokens(text) ==
    IF text = <<>> THEN 0 ELSE countTokensFromNormalizedText(Normalize(text))

\* variant: Normalize has no early return for the empty text
NormalizeDecomposesAlways(text) == TRUE

\* whether Normalize(text) gets as far as norm.NFD.String and processText
NormalizeDecomposes(text) == text # <<>>

(***************************************************************************)
(* Inputs: every text of at most MaxLen code points over SeqAlphabet,      *)
(* every single code point of the universe, and the texts of the README    *)
(* and of the test tables.                                                 *)
(***************************************************************************)
MnSample == {768, 769, 770, 774, 776, 803, 8400}

Universe ==
    (0..127) \cup MnSample \cup OtherMarks \cup NonASCIILetters
    \cup NonASCIIDigits \cup NonASCIISymbols

\* 'a' 'Z' '5' ' ' '!' U+0301 U+00E9 U+00DF U+00C6 U+4E16
SeqAlphabet == {97, 90, 53, 32, 33, 769, 233, 223, 198, 19990}

BoundedTexts == UNION { [1..n -> SeqAlphabet] : n \in 0..MaxLen }

SingleCodePoints == { <<r>> : r \in Universe }

Hello == <<104, 101, 108, 108, 111>>
HelloWorld == <<104, 101, 108, 108, 111, 32, 119, 111, 114, 108, 100>>
HelloCommaWorld == <<72, 101, 108, 108, 111, 44, 32, 119, 111, 114, 108, 100, 33>>
CafeUnicode == <<99, 97, 102, 233>>
MullerUmlaut == <<77, 252, 108, 108, 101, 114>>
CafeNaiveResume ==
    <<67, 97, 102, 233, 32, 110, 97, 239, 118, 101, 32, 114, 233, 115, 117, 109, 233>>
NumbersAndLetters == <<97, 98, 99, 49, 50, 51, 100, 101, 102>>
OnlySpecial == <<33, 64, 35, 36, 37, 94, 38, 42, 40, 41>>
HanScriptText == <<72, 101, 108, 108, 111, 19990, 30028>>
Emoji == <<128512, 128512, 128512>>
CombiningText == <<97, 769, 98, 770, 99, 776>>
StackedMarks == <<101, 769, 803, 776, 770>>
MixedMarks == <<97, 2307, 8413, 768>>

Examples ==
    { Hello, HelloWorld, HelloCommaWorld, CafeUnicode, MullerUmlaut,
      CafeNaiveResume, NumbersAndLetters, OnlySpecial, HanScriptText, Emoji,
      CombiningText, StackedMarks, MixedMarks }

Inputs == BoundedTexts \cup SingleCodePoints \cup Examples

(***************************************************************************)
(* State.                                                                  *)
(***************************************************************************)
VARIABLES
    model,       \* Tokenizer.model
    first,       \* the text the caller started with
    text,        \* argument of the current call
    fed,         \* TRUE when text is the result of an earlier Normalize call
    op,          \* the method called: "none", "Normalize", "EstimateTokens"
    pc,          \* "idle", "count" (inside the counting loop), "done"
    normalized,  \* result of Normalize / local of EstimateTokens
    pos,         \* position of the counting loop in normalized
    tokenCount,  \* local of countTokensFromNormalizedText
    charCount,   \* local of countTokensFromNormalizedText
    tokens,      \* result of EstimateTokens
    decomposed,  \* TRUE when the current call has run norm.NFD.String
    calls,       \* concurrent callers of one shared Tokenizer: caller -> its call
    frames,      \* locals of countTokensFromNormalizedText, one frame per call
    t,           \* the tiktoken adapter: aitokenizer.Tokenizer{defaultEncoding}
    content,     \* the text passed to CountTokens or chunkText
    maxTokens,   \* chunkText's token budget
    encoding,    \* chunkText's encoding argument ("" selects the default)
    badRunes,    \* runes on which the codec's Encode returns an error
    chunkPc,     \* position of the adapter's caller
    words,       \* local of chunkText
    wordIndex,   \* position of chunkText's range loop in words
    currentChunk,\* local of chunkText
    chunkIndex,  \* local of chunkText
    chunks,      \* local and result of chunkText
    count,       \* result of CountTokens, CountTokensForModel, CountTokensForEncoding
    arg,         \* the model or encoding passed to CountTokensForModel / ForEncoding
    err,         \* the error CountTokensForModel / ForEncoding returns, "nil" for none
    lookedUp,    \* TRUE when the call has run tokenizer.ForModel or tokenizer.Get
    flags,       \* estimator CLI: the parsed cliFlags
    args,        \* estimator CLI: flag.Args(), the positional arguments
    stdin,       \* estimator CLI: what reading standard input gives
    fileData,    \* estimator CLI: what reading the file path gives
    textInput,   \* estimator CLI: the input text requireInput resolved
    reads,       \* estimator CLI: the sources read so far, in order
    result,      \* both CLIs: the TokenResult or TokenEstimate built, if any
    cfg,         \* token-budget CLI: the parsed config
    ran,         \* token-budget CLI: the modes run so far, in order
    out,         \* both CLIs: what was written to stdout and stderr, in order
    exit,        \* both CLIs: the exit status
    cliPc        \* both CLIs: position of the process

vars ==
    <<model, first, text, fed, op, pc, normalized, pos, tokenCount, charCount, tokens,
      decomposed, calls, frames,
      t, content, maxTokens, encoding, badRunes, chunkPc, words, wordIndex,
      currentChunk, chunkIndex, chunks, count, arg, err, lookedUp,
      flags, args, stdin, fileData, textInput, reads, result, cfg, ran, out, exit, cliPc>>

\* state of the single caller
soloVars ==
    <<first, text, fed, op, pc, normalized, pos, tokenCount, charCount, tokens, decomposed>>

\* state of the concurrent callers
concVars == <<calls, frames>>

\* state of the tiktoken adapter and of the chunker of the token-budget CLI
chunkVars ==
    <<t, content, maxTokens, encoding, badRunes, chunkPc, words, wordIndex,
      currentChunk, chunkIndex, chunks, count, arg, err, lookedUp>>

\* state of the two command-line programs
cliVars == <<flags, args, stdin, fileData, textInput, reads, result, cfg, ran, out, exit, cliPc>>

\* what the single caller's steps leave alone
otherVars == <<concVars, chunkVars, cliVars>>

\* no concurrent callers
ConcOff == calls = <<>> /\ frames = <<>>

\* no adapter exists and no chunking is in progress
ChunkOff ==
    /\ t = [defaultEncoding |-> ""]
    /\ content = <<>>
    /\ maxTokens = 0
    /\ encoding = ""
    /\ badRunes = {}
    /\ chunkPc = "off"
    /\ words = <<>>
    /\ wordIndex = 0
    /\ currentChunk = <<>>
    /\ chunkIndex = 0
    /\ chunks = <<>>
    /\ count = 0
    /\ arg = ""
    /\ err = "nil"
    /\ lookedUp = FALSE

\* the value of a field that holds nothing
None == [ none |-> TRUE ]

\* no command-line program is running
CliOff ==
    /\ flags = None
    /\ args = <<>>
    /\ stdin = None
    /\ fileData = None
    /\ textInput = <<>>
    /\ reads = <<>>
    /\ result = None
    /\ cfg = None
    /\ ran = <<>>
    /\ out = <<>>
    /\ exit = 0
    /\ cliPc = "off"

\* NewTokenizer, and a caller holding a text
Init ==
    /\ model = DefaultModel
    /\ first \in Inputs
    /\ text = first
    /\ fed = FALSE
    /\ op = "none"
    /\ pc = "idle"
    /\ normalized = <<>>
    /\ pos = 0
    /\ tokenCount = 0
    /\ charCount = 0
    /\ tokens = 0
    /\ decomposed = FALSE
    /\ ConcOff
    /\ ChunkOff
    /\ CliOff

\* t.Normalize(text)
CallNormalize ==
    /\ UNCHANGED otherVars
    /\ pc = "idle"
    /\ op' = "Normalize"
    /\ normalized' = Normalize(text)
    /\ decomposed' = NormalizeDecomposes(text)
    /\ pc' = "done"
    /\ UNCHANGED <<model, first, text, fed, pos, tokenCount, charCount, tokens>>

\* t.EstimateTokens(text), up to the start of the counting loop
CallEstimateTokens ==
    /\ UNCHANGED otherVars
    /\ pc = "idle"
    /\ op' = "EstimateTokens"
    /\ IF text = <<>>
       THEN /\ tokens' = 0
            /\ pc' = "done"
            /\ UNCHANGED <<normalized, pos, tokenCount, charCount, decomposed>>
       ELSE /\ normalized' = Normalize(text)
            /\ decomposed' = NormalizeDecomposes(text)
            /\ tokenCount' = 0
            /\ charCount' = 0
            /\ pos' = 1
            /\ pc' = "count"
            /\ UNCHANGED tokens
    /\ UNCHANGED <<model, first, text, fed>>

\* loop body of countTokensFromNormalizedText, special character
CountSpecial ==
    /\ UNCHANGED otherVars
    /\ pc = "count"
    /\ pos <= Len(normalized)
    /\ isSpecialChar(normalized[pos])
    /\ tokenCount' = tokenCount + addAccumulatedCharTokens(charCount) + 1
    /\ charCount' = 0
    /\ pos' = pos + 1
    /\ UNCHANGED <<model, first, text, fed, op, pc, normalized, tokens, decomposed>>

\* loop body of countTokensFromNormalizedText, letter or digit
CountOrdinary ==
    /\ UNCHANGED otherVars
    /\ pc = "count"
    /\ pos <= Len(normalized)
    /\ ~isSpecialChar(normalized[pos])
    /\ charCount' = charCount + 1
    /\ pos' = pos + 1
    /\ UNCHANGED <<model, first, text, fed, op, pc, normalized, tokenCount, tokens,
                   decomposed>>

\* end of the loop: final flush and return
CountReturn ==
    /\ UNCHANGED otherVars
    /\ pc = "count"
    /\ pos > Len(normalized)
    /\ tokens' = tokenCount + addAccumulatedCharTokens(charCount)
    /\ pc' = "done"
    /\ UNCHANGED <<model, first, text, fed, op, normalized, pos, tokenCount, charCount,
                   decomposed>>

\* the caller passes the result of Normalize to a further call
FeedBack ==
    /\ UNCHANGED otherVars
    /\ pc = "done"
    /\ op = "Normalize"
    /\ ~fed
    /\ text' = normalized
    /\ fed' = TRUE
    /\ op' = "none"
    /\ pc' = "idle"
    /\ pos' = 0
    /\ tokenCount' = 0
    /\ charCount' = 0
    /\ tokens' = 0
    /\ decomposed' = FALSE
    /\ UNCHANGED <<model, first, normalized>>

Next ==
    \/ CallNormalize
    \/ CallEstimateTokens
    \/ CountSpecial
    \/ CountOrdinary
    \/ CountReturn
    \/ FeedBack

Spec == Init /\ [][Next]_vars

\* a call is synchronous and runs to completion: once inside the counting
\* loop it keeps stepping (whether a call is made at all is up to the caller)
FairSpec == Spec /\ WF_vars(CountSpecial \/ CountOrdinary \/ CountReturn)

TypeOK ==
    /\ model = DefaultModel
    /\ pc \in {"idle", "count", "done"}
    /\ op \in {"none", "Normalize", "EstimateTokens"}
    /\ fed \in BOOLEAN
    /\ decomposed \in BOOLEAN
    /\ tokens \in Nat /\ tokenCount \in Nat /\ charCount \in Nat /\ pos \in Nat

(***************************************************************************)
(* Vocabulary of the properties.                                           *)
(***************************************************************************)
Done(method) == pc = "done" /\ op = method

\* ceil(k / 2): the least m with 2 * m >= k
CeilHalf(k) == CHOOSE m \in 0..k : 2 * m >= k /\ 2 * (m - 1) < k

Ordinary(c) == IsLetter(c) \/ IsDigit(c)

SpecialsIn(s) == Cardinality({ i \in 1..Len(s) : ~Ordinary(s[i]) })

\* positions where a maximal run of letters/digits starts
RunStarts(s) ==
    { i \in 1..Len(s) : Ordinary(s[i]) /\ (i = 1 \/ ~Ordinary(s[i - 1])) }

RunLength(s, i) ==
    Cardinality({ j \in i..Len(s) : \A k \in i..j : Ordinary(s[k]) })

RECURSIVE RunCost(_, _)
RunCost(s, starts) ==
    IF starts = {} THEN 0
    ELSE LET i == CHOOSE x \in starts : TRUE
         IN  CeilHalf(RunLength(s, i)) + RunCost(s, starts \ {i})

AllASCII(s) == \A i \in 1..Len(s) : s[i] <= 127

AllMarks == MnTable \cup OtherMarks

\* C1: EstimateTokens(text) is the number of special characters of
\* Normalize(text) plus ceil(length / 2) for each maximal run of
\* letters/digits of Normalize(text).
C1_EstimateIsSpecialsPlusRuns ==
    Done("EstimateTokens") =>
        tokens = SpecialsIn(Normalize(text))
                 + RunCost(Normalize(text), RunStarts(Normalize(text)))

C1_Witness ==
    /\ Done("EstimateTokens")
    /\ Cardinality(RunStarts(Normalize(text))) >= 2
    /\ SpecialsIn(Normalize(text)) >= 2
    /\ \E i \in RunStarts(Normalize(text)) : RunLength(Normalize(text), i) = 5
    /\ tokens = 9

\* C2: a text of k ASCII letters and/or digits estimates to ceil(k / 2).
C2_OrdinaryRun ==
    (Done("EstimateTokens") /\ \A i \in 1..Len(text) : text[i] \in ASCIILetters \cup ASCIIDigits)
        => tokens = CeilHalf(Len(text))

C2_Witness ==
    /\ Done("EstimateTokens")
    /\ Len(text) >= 3
    /\ Len(text) % 2 = 1
    /\ \A i \in 1..Len(text) : text[i] \in ASCIILetters \cup ASCIIDigits
    /\ \E i \in 1..Len(text) : text[i] \in ASCIILetters
    /\ \E i \in 1..Len(text) : text[i] \in ASCIIDigits

\* C3: a text of k ASCII special characters estimates to k.
C3_SpecialsOnly ==
    (Done("EstimateTokens")
        /\ \A i \in 1..Len(text) : text[i] \in (0..127) \ (ASCIILetters \cup ASCIIDigits))
        => tokens = Len(text)

C3_Witness ==
    /\ Done("EstimateTokens")
    /\ Len(text) >= 3
    /\ \A i \in 1..Len(text) : text[i] \in (0..127) \ (ASCIILetters \cup ASCIIDigits)
    /\ \E i \in 1..Len(text) : text[i] = 32
    /\ tokens = Len(text)

\* C4: every code point of Normalize(text) is at most 0x7F.
C4_NormalizedIsASCII ==
    (pc = "done" \/ pc = "count") => \A i \in 1..Len(normalized) : normalized[i] <= 127

C4_Witness ==
    /\ Done("Normalize")
    /\ normalized # <<>>
    /\ \A i \in 1..Len(text) : text[i] > 127

\* C5: Normalize applied to a result of Normalize returns it unchanged, and
\* an ASCII-only text is returned unchanged.
C5_Idempotent ==
    /\ (Done("Normalize") /\ fed) => normalized = text
    /\ (Done("Normalize") /\ AllASCII(text)) => normalized = text

C5_Witness ==
    /\ Done("Normalize")
    /\ fed
    /\ text # <<>>
    /\ text # first
    /\ normalized = text

\* the code points C6 speaks of: not a mark, above 0x7F, no table entry
Unfoldable(c) == c > 127 /\ c \notin AllMarks /\ c \notin DOMAIN specialRuneMap

\* ... whose canonical decomposition has no ASCII code point and no table entry
Unmappable(c) ==
    /\ Unfoldable(c)
    /\ \A j \in 1..Len(Decompose(c)) :
           Decompose(c)[j] > 127 /\ Decompose(c)[j] \notin DOMAIN specialRuneMap

\* C6 as stated: a text made only of code points that are not marks, are
\* above 0x7F and have no table entry normalizes to "" and estimates to 0.
C6_Original ==
    (pc = "done" /\ op # "none" /\ \A i \in 1..Len(text) : Unfoldable(text[i]))
        => /\ text # <<>> => normalized = <<>>
           /\ op = "EstimateTokens" => tokens = 0

\* C6 (amended): a code point that is not a mark, is above 0x7F, and whose
\* canonical decomposition holds no ASCII code point and no table entry
\* contributes nothing to the output of Normalize; a text made only of such
\* code points normalizes to "" and estimates to 0.
C6_UnmappableDropped ==
    /\ (pc = "done" /\ op # "none" /\ \A i \in 1..Len(text) : Unmappable(text[i]))
        => /\ text # <<>> => normalized = <<>>
           /\ op = "EstimateTokens" => tokens = 0
    /\ Done("Normalize")
        => normalized = Normalize(SelectSeq(text, LAMBDA c : ~Unmappable(c)))

C6_Witness ==
    /\ pc = "done"
    /\ op = "EstimateTokens"
    /\ Len(text) >= 2
    /\ \A i \in 1..Len(text) : Unmappable(text[i])
    /\ tokens = 0

\* base letters of the precomposed accented letters of the universe
BaseLetter ==
    (201 :> 69) @@ (224 :> 97) @@ (233 :> 101) @@ (239 :> 105) @@
    (252 :> 117) @@ (7871 :> 101)

\* C7: an ASCII base letter followed by any number of combining marks, or the
\* equivalent precomposed accented letter, normalizes to the base letter;
\* "caf" U+00E9 gives "cafe" and "M" U+00FC "ller" gives "Muller".
C7_DiacriticsRemoved ==
    Done("Normalize") =>
        /\ (text # <<>> /\ text[1] \in ASCIILetters
               /\ \A i \in 2..Len(text) : text[i] \in AllMarks)
            => normalized = <<text[1]>>
        /\ (Len(text) = 1 /\ text[1] \in DOMAIN BaseLetter)
            => normalized = <<BaseLetter[text[1]]>>
        /\ text = CafeUnicode => normalized = <<99, 97, 102, 101>>
        /\ text = MullerUmlaut => normalized = <<77, 117, 108, 108, 101, 114>>

C7_Witness ==
    /\ Done("Normalize")
    /\ Len(text) >= 3
    /\ text[1] \in ASCIILetters
    /\ \A i \in 2..Len(text) : text[i] \in AllMarks
    /\ normalized = <<text[1]>>

\* the folding table as documented: the lowercase sources and their
\* replacements
LowercaseEntries ==
    (223 :> <<115, 115>>) @@ (230 :> <<97, 101>>) @@ (339 :> <<111, 101>>) @@
    (248 :> <<111>>) @@ (254 :> <<116, 104>>) @@ (240 :> <<100>>)

\* uppercase table sources and their lowercase counterparts
LowerOf == (198 :> 230) @@ (338 :> 339) @@ (216 :> 248) @@ (222 :> 254) @@ (208 :> 240)

TableSources == DOMAIN LowercaseEntries \cup DOMAIN LowerOf

DocumentedReplacement(c) ==
    IF c \in DOMAIN LowerOf THEN LowercaseEntries[LowerOf[c]] ELSE LowercaseEntries[c]

\* what the code points of a canonical decomposition yield: an ASCII code
\* point itself, a table source its replacement, anything else nothing
RECURSIVE YieldOf(_)
YieldOf(d) ==
    IF d = <<>> THEN <<>>
    ELSE (IF Head(d) <= 127 THEN <<Head(d)>>
          ELSE IF Head(d) \in TableSources THEN DocumentedReplacement(Head(d))
          ELSE <<>>) \o YieldOf(Tail(d))

\* C8 as stated: the six lowercase sources map to their replacements and no
\* other non-ASCII, non-mark code point produces any output.
C8_Original ==
    (Done("Normalize") /\ Len(text) = 1) =>
        /\ text[1] \in DOMAIN LowercaseEntries => normalized = LowercaseEntries[text[1]]
        /\ (text[1] > 127 /\ text[1] \notin AllMarks
               /\ text[1] \notin DOMAIN LowercaseEntries)
            => normalized = <<>>

\* C8 (amended): Normalize maps the six lowercase sources and their five
\* uppercase forms to 'ss', 'ae', 'oe', 'o', 'th', 'd'; any other non-ASCII
\* code point yields only what the ASCII code points and table sources of
\* its canonical decomposition yield, and nothing when there are none.
C8_TableExact ==
    (Done("Normalize") /\ Len(text) = 1 /\ text[1] > 127) =>
        /\ text[1] \in TableSources => normalized = DocumentedReplacement(text[1])
        /\ text[1] \notin TableSources => normalized = YieldOf(Decompose(text[1]))
        /\ (text[1] \notin TableSources /\ Decompose(text[1]) = <<text[1]>>)
            => normalized = <<>>

C8_Witness ==
    /\ Done("Normalize")
    /\ text = <<248>>
    /\ normalized = <<111>>

\* C9 as stated: an uppercase table source is replaced by text starting with
\* an uppercase ASCII letter, a lowercase one by the lowercase replacement.
C9_Original ==
    (Done("Normalize") /\ Len(text) = 1) =>
        /\ text[1] \in DOMAIN LowerOf
            => normalized # <<>> /\ normalized[1] \in 65..90
        /\ text[1] \in DOMAIN LowercaseEntries => normalized = LowercaseEntries[text[1]]

\* C9 (amended): folding does not preserve case: an uppercase table source is
\* replaced by the same all-lowercase text as its lowercase counterpart.
C9_UppercaseFoldsToLowercase ==
    (Done("Normalize") /\ Len(text) = 1 /\ text[1] \in DOMAIN LowerOf) =>
        /\ normalized = Normalize(<<LowerOf[text[1]]>>)
        /\ normalized # <<>>
        /\ \A i \in 1..Len(normalized) : normalized[i] \in 97..122

C9_Witness ==
    /\ Done("Normalize")
    /\ text = <<198>>
    /\ normalized = <<97, 101>>

\* C10: EstimateTokens("hello world") returns 6.
C10_HelloWorldIsSix ==
    (Done("EstimateTokens") /\ text = HelloWorld) => tokens = 6

\* C11: EstimateTokens("hello") is 3 and EstimateTokens("Hello, world!") is 9.
C11_DocumentedExamples ==
    /\ (Done("EstimateTokens") /\ text = Hello) => tokens = 3
    /\ (Done("EstimateTokens") /\ text = HelloCommaWorld) => tokens = 9

C11_Witness ==
    /\ Done("EstimateTokens")
    /\ text = Hello
    /\ normalized = Hello
    /\ tokens = 3

\* "Cafe naive resume"
CafeNaiveResumeASCII ==
    <<67, 97, 102, 101, 32, 110, 97, 105, 118, 101, 32, 114, 101, 115, 117, 109, 101>>

\* C12: Normalize of "Caf\u00E9 na\u00EFve r\u00E9sum\u00E9" is "Cafe naive resume" and
\* EstimateTokens of that normalized text is 8.
C12_CombinedExample ==
    /\ (Done("Normalize") /\ text = CafeNaiveResume) => normalized = CafeNaiveResumeASCII
    /\ (Done("EstimateTokens") /\ fed /\ first = CafeNaiveResume)
        => text = CafeNaiveResumeASCII /\ tokens = 8

\* C13: EstimateTokens("") is 0 and Normalize("") is "", and both return
\* before any decomposition or folding is performed.
C13_EmptyShortCircuits ==
    /\ (Done("EstimateTokens") /\ text = <<>>) => (tokens = 0 /\ ~decomposed)
    /\ (Done("Normalize") /\ text = <<>>) => (normalized = <<>> /\ ~decomposed)
    /\ pc = "count" => text # <<>>

C13_Witness ==
    /\ Done("Normalize")
    /\ ~fed
    /\ text = <<>>
    /\ normalized = <<>>
    /\ ~decomposed

\* C14: EstimateTokens and Normalize are total: a call on any input (empty,
\* white space only, symbols only, code points without ASCII equivalent)
\* returns a value, there being no error outcome to end in, and the count of
\* EstimateTokens is never negative.
C14_Total ==
    /\ [](tokens >= 0 /\ tokenCount >= 0 /\ charCount >= 0)
    /\ [](pc \in {"idle", "count", "done"})
    /\ [][pc = "idle" => pc' \in {"count", "done"}]_vars
    /\ (pc = "count" ~> Done("EstimateTokens"))

C14_Witness ==
    /\ Done("EstimateTokens")
    /\ text # <<>>
    /\ \A i \in 1..Len(text) : text[i] > 127
    /\ normalized = <<>>
    /\ tokens = 0

ASCIIOrdinary == ASCIILetters \cup ASCIIDigits

ASCIISpecial == (0..127) \ ASCIIOrdinary

OnlyOf(s, class) == \A i \in 1..Len(s) : s[i] \in class

\* C15: for a text of ASCII letters/digits only, or of ASCII special
\* characters only, appending one more character of the same class never
\* lowers the count of EstimateTokens.
C15_MonotonicWithinClass ==
    Done("EstimateTokens") =>
        /\ OnlyOf(text, ASCIIOrdinary)
            => \A c \in ASCIIOrdinary : EstimateTokens(Append(text, c)) >= tokens
        /\ OnlyOf(text, ASCIISpecial)
            => \A c \in ASCIISpecial : EstimateTokens(Append(text, c)) >= tokens

C15_Witness ==
    /\ Done("EstimateTokens")
    /\ Len(text) = 3
    /\ OnlyOf(text, ASCIIOrdinary)
    /\ tokens = 2
    /\ EstimateTokens(Append(text, 97)) = 2
    /\ EstimateTokens(Append(Append(text, 97), 53)) = 3

\* C16: the folding pass never lengthens the text in bytes: the replacement
\* emitted for a code point of the NFD-decomposed input is no longer in bytes
\* than that code point's UTF-8 encoding, so the output of processText is at
\* most len(nfd) bytes long.
C16_NoLongerInBytes ==
    Done("Normalize") =>
        /\ \A i \in 1..Len(NFD(text)) :
               ByteLen(normalizeRune(NFD(text)[i])) <= UTF8Len(NFD(text)[i])
        /\ ByteLen(normalized) <= ByteLen(NFD(text))

C16_Witness ==
    /\ Done("Normalize")
    /\ Len(text) >= 2
    /\ \E i \in 1..Len(text) : text[i] = 223
    /\ \E i \in 1..Len(text) : text[i] = 198
    /\ ByteLen(normalized) = ByteLen(NFD(text))

(***************************************************************************)
(* Several callers sharing one Tokenizer.  Each caller runs one method at  *)
(* a time; the steps of different callers interleave.  The Tokenizer's     *)
(* only field is model; the locals of a running call live in its own       *)
(* frame.                                                                  *)
(***************************************************************************)
\* number of concurrent callers
NumCallers == 2

Callers == 1..NumCallers

\* the texts the concurrent callers pass: "", "a!", U+00E9 "bc", " " U+00DF
ConcInputs == { <<>>, <<97, 33>>, <<233, 98, 99>>, <<32, 223>> }

\* t.GetModel()
GetModel == model

\* variant: the loop counters are kept in the shared Tokenizer
FrameShared(c) == 1

\* the frame holding the locals of caller c's running call
Frame(c) == c

IdleCall(input) ==
    [ op |-> "none", text |-> input, pc |-> "idle", normalized |-> <<>>, pos |-> 0,
      tokens |-> 0, got |-> "" ]

EmptyFrame == [ tokenCount |-> 0, charCount |-> 0 ]

\* the single caller of Spec stays out of the way
SoloOff ==
    /\ first = <<>>
    /\ text = <<>>
    /\ fed = FALSE
    /\ op = "none"
    /\ pc = "idle"
    /\ normalized = <<>>
    /\ pos = 0
    /\ tokenCount = 0
    /\ charCount = 0
    /\ tokens = 0
    /\ decomposed = FALSE

\* NewTokenizer, shared by callers that each hold a text
ConcInit ==
    /\ model = DefaultModel
    /\ calls \in [Callers -> { IdleCall(input) : input \in ConcInputs }]
    /\ frames = [c \in Callers |-> EmptyFrame]
    /\ SoloOff
    /\ ChunkOff
    /\ CliOff

ConcCallGetModel(c) ==
    /\ calls[c].pc = "idle"
    /\ calls' = [calls EXCEPT ![c].op = "GetModel", ![c].got = GetModel, ![c].pc = "done"]
    /\ UNCHANGED <<model, frames, soloVars, chunkVars, cliVars>>

ConcCallNormalize(c) ==
    /\ calls[c].pc = "idle"
    /\ calls' = [calls EXCEPT ![c].op = "Normalize",
                              ![c].normalized = Normalize(calls[c].text),
                              ![c].pc = "done"]
    /\ UNCHANGED <<model, frames, soloVars, chunkVars, cliVars>>

ConcCallEstimateTokens(c) ==
    /\ calls[c].pc = "idle"
    /\ IF calls[c].text = <<>>
       THEN /\ calls' = [calls EXCEPT ![c].op = "EstimateTokens", ![c].tokens = 0,
                                      ![c].pc = "done"]
            /\ UNCHANGED frames
       ELSE /\ calls' = [calls EXCEPT ![c].op = "EstimateTokens",
                                      ![c].normalized = Normalize(calls[c].text),
                                      ![c].pos = 1,
                                      ![c].pc = "count"]
            /\ frames' = [frames EXCEPT ![Frame(c)] = EmptyFrame]
    /\ UNCHANGED <<model, soloVars, chunkVars, cliVars>>

ConcCountSpecial(c) ==
    /\ calls[c].pc = "count"
    /\ calls[c].pos <= Len(calls[c].normalized)
    /\ isSpecialChar(calls[c].normalized[calls[c].pos])
    /\ frames' = [frames EXCEPT ![Frame(c)] =
           [ tokenCount |-> frames[Frame(c)].tokenCount
                            + addAccumulatedCharTokens(frames[Frame(c)].charCount) + 1,
             charCount |-> 0 ]]
    /\ calls' = [calls EXCEPT ![c].pos = calls[c].pos + 1]
    /\ UNCHANGED <<model, soloVars, chunkVars, cliVars>>

ConcCountOrdinary(c) ==
    /\ calls[c].pc = "count"
    /\ calls[c].pos <= Len(calls[c].normalized)
    /\ ~isSpecialChar(calls[c].normalized[calls[c].pos])
    /\ frames' = [frames EXCEPT ![Frame(c)].charCount = frames[Frame(c)].charCount + 1]
    /\ calls' = [calls EXCEPT ![c].pos = calls[c].pos + 1]
    /\ UNCHANGED <<model, soloVars, chunkVars, cliVars>>

ConcCountReturn(c) ==
    /\ calls[c].pc = "count"
    /\ calls[c].pos > Len(calls[c].normalized)
    /\ calls' = [calls EXCEPT
           ![c].tokens = frames[Frame(c)].tokenCount
                         + addAccumulatedCharTokens(frames[Frame(c)].charCount),
           ![c].pc = "done"]
    /\ UNCHANGED <<model, frames, soloVars, chunkVars, cliVars>>

\* the caller takes the result and gets ready for its next call
ConcNextCall(c) ==
    /\ calls[c].pc = "done"
    /\ \E input \in ConcInputs : calls' = [calls EXCEPT ![c] = IdleCall(input)]
    /\ frames' = [frames EXCEPT ![c] = EmptyFrame]
    /\ UNCHANGED <<model, soloVars, chunkVars, cliVars>>

ConcNext ==
    \E c \in Callers :
        \/ ConcCallGetModel(c)
        \/ ConcCallNormalize(c)
        \/ ConcCallEstimateTokens(c)
        \/ ConcCountSpecial(c)
        \/ ConcCountOrdinary(c)
        \/ ConcCountReturn(c)
        \/ ConcNextCall(c)

ConcSpec == ConcInit /\ [][ConcNext]_vars

\* C17: a Tokenizer is never mutated: under any interleaving of concurrent
\* EstimateTokens, Normalize and GetModel calls on one shared instance,
\* GetModel returns "simple" and every call returns what it returns when run
\* alone.
C17_SharedUseIsSafe ==
    /\ model = "simple"
    /\ \A c \in Callers :
        calls[c].pc = "done" =>
            /\ calls[c].op = "GetModel" => calls[c].got = "simple"
            /\ calls[c].op = "Normalize" => calls[c].normalized = Normalize(calls[c].text)
            /\ calls[c].op = "EstimateTokens"
                => calls[c].tokens = EstimateTokens(calls[c].text)

C17_Witness ==
    /\ calls[1].pc = "done"
    /\ calls[1].op = "EstimateTokens"
    /\ calls[1].text = <<233, 98, 99>>
    /\ calls[1].tokens = 2
    /\ calls[2].pc = "count"
    /\ calls[2].text = <<97, 33>>
    /\ calls[2].pos = 2

(***************************************************************************)
(* The tiktoken adapter (package aitokenizer) and chunkText of the         *)
(* token-budget CLI.  Contents are sequences of code points over a small   *)
(* alphabet: two letters, the space and the newline.                       *)
(***************************************************************************)
\* longest content
MaxTextLen == 5

\* largest token budget
MaxBudget == 3

\* 'a', 'b', ' ', '\n'
ChunkAlphabet == {97, 98, 32, 10}

ChunkTexts == UNION { [1..n -> ChunkAlphabet] : n \in 0..MaxTextLen }

\* chunkSize as runChunk passes it: always positive
Budgets == 1..MaxBudget

\* tokenizer.Cl100kBase
Cl100kBase == "cl100k_base"

\* the -encoding flag: unset, a supported encoding, an unsupported one
Encodings == {"", "r50k_base", "invalid"}

\* the encodings tokenizer.Get knows
SupportedEncodings == {"cl100k_base", "r50k_base", "p50k_base"}

\* the multi-rune tokens of each codec's vocabulary; every single rune is a token
Vocabulary(enc) ==
    IF enc = "cl100k_base"
    THEN { <<97, 98>>, <<32, 97>>, <<32, 98>>, <<32, 97, 98>> }
    ELSE { <<32, 97>>, <<32, 98>> }

\* unicode.IsSpace, as strings.Fields uses it
IsSpace(r) == r \in {9, 10, 11, 12, 13, 32, 133, 160}

RECURSIVE fieldsLoop(_, _, _)
fieldsLoop(rest, word, acc) ==
    IF rest = <<>>
    THEN IF word = <<>> THEN acc ELSE Append(acc, word)
    ELSE IF IsSpace(Head(rest))
         THEN fieldsLoop(Tail(rest), <<>>, IF word = <<>> THEN acc ELSE Append(acc, word))
         ELSE fieldsLoop(Tail(rest), Append(word, Head(rest)), acc)

\* strings.Fields(s)
Fields(s) == fieldsLoop(s, <<>>, <<>>)

\* tokenizer.Get(encoding)
Get(enc) == [ err |-> enc \notin SupportedEncodings, codec |-> enc ]

\* the longest token of the codec's vocabulary that starts s
LongestToken(codec, s) ==
    LET fits == { n \in 1..Len(s) : n = 1 \/ SubSeq(s, 1, n) \in Vocabulary(codec) }
        n == CHOOSE m \in fits : \A k \in fits : k <= m
    IN  SubSeq(s, 1, n)

RECURSIVE encodeLoop(_, _)
encodeLoop(codec, s) ==
    IF s = <<>>
    THEN <<>>
    ELSE LET tk == LongestToken(codec, s)
         IN  <<tk>> \o encodeLoop(codec, SubSeq(s, Len(tk) + 1, Len(s)))

\* codec.Encode(content)
Encode(codec, s) ==
    IF \E i \in 1..Len(s) : s[i] \in badRunes
    THEN [ err |-> TRUE, tokens |-> <<>> ]
    ELSE [ err |-> FALSE, tokens |-> encodeLoop(codec, s) ]

\* variant: a quarter of the length, as estimateTokens of the CLI
fallbackCountQuarter(s) == Len(s) \div 4

\* t.fallbackCount(content)
fallbackCount(s) == Len(Fields(s))

\* t.CountTokens(content)
CountTokens(tk, s) ==
    IF s = <<>>
    THEN 0
    ELSE LET tiktoken == Get(tk.defaultEncoding)
         IN  IF tiktoken.err
             THEN fallbackCount(s)
             ELSE LET encoded == Encode(tiktoken.codec, s)
                  IN  IF encoded.err THEN fallbackCount(s) ELSE Len(encoded.tokens)

\* aitokenizer.NewTokenizer()
NewTokenizer == [ defaultEncoding |-> Cl100kBase ]

\* aitokenizer.NewTokenizerWithEncoding(encoding)
NewTokenizerWithEncoding(enc) == [ defaultEncoding |-> enc ]

\* the adapter chunkText builds from its encoding argument
TokenizerFor(enc) == IF enc # "" THEN NewTokenizerWithEncoding(enc) ELSE NewTokenizer

\* variant: the word is appended without a separator
testChunkGlued(cur, word) == cur \o word

\* testChunk of chunkText: the current chunk extended by a word
testChunk(cur, word) == IF cur # <<>> THEN cur \o <<32>> \o word ELSE word

ChunkInfo(index, tks, txt) == [ Index |-> index, Tokens |-> tks, Text |-> txt ]

\* a caller about to use the adapter on a content
ChunkInit ==
    /\ model = DefaultModel
    /\ SoloOff
    /\ ConcOff
    /\ CliOff
    /\ t = [defaultEncoding |-> ""]
    /\ content \in ChunkTexts
    /\ maxTokens \in Budgets
    /\ encoding \in Encodings
    /\ badRunes \in { {}, {98} }
    /\ chunkPc = "idle"
    /\ words = <<>>
    /\ wordIndex = 0
    /\ currentChunk = <<>>
    /\ chunkIndex = 0
    /\ chunks = <<>>
    /\ count = 0
    /\ arg = ""
    /\ err = "nil"
    /\ lookedUp = FALSE

\* t.CountTokens(content) on an adapter for the encoding
CallCountTokens ==
    /\ chunkPc = "idle"
    /\ t' = TokenizerFor(encoding)
    /\ count' = CountTokens(t', content)
    /\ chunkPc' = "counted"
    /\ UNCHANGED <<content, maxTokens, encoding, badRunes, words, wordIndex, currentChunk,
                   chunkIndex, chunks>>
    /\ UNCHANGED <<arg, err, lookedUp>>
    /\ UNCHANGED <<model, soloVars, concVars, cliVars>>

\* chunkText(text, maxTokens, model, encoding), up to the start of the loop
CallChunkText ==
    /\ chunkPc = "idle"
    /\ t' = TokenizerFor(encoding)
    /\ words' = Fields(content)
    /\ wordIndex' = 1
    /\ currentChunk' = <<>>
    /\ chunkIndex' = 0
    /\ chunks' = <<>>
    /\ chunkPc' = "loop"
    /\ UNCHANGED <<content, maxTokens, encoding, badRunes, count>>
    /\ UNCHANGED <<arg, err, lookedUp>>
    /\ UNCHANGED <<model, soloVars, concVars, cliVars>>

\* loop body: the current chunk is full, finalize it and start one with the word
ChunkFinalize ==
    /\ chunkPc = "loop"
    /\ wordIndex <= Len(words)
    /\ CountTokens(t, testChunk(currentChunk, words[wordIndex])) > maxTokens
    /\ currentChunk # <<>>
    /\ chunks' = Append(chunks, ChunkInfo(chunkIndex, CountTokens(t, currentChunk), currentChunk))
    /\ currentChunk' = words[wordIndex]
    /\ chunkIndex' = chunkIndex + 1
    /\ wordIndex' = wordIndex + 1
    /\ UNCHANGED <<t, content, maxTokens, encoding, badRunes, chunkPc, words, count>>
    /\ UNCHANGED <<arg, err, lookedUp>>
    /\ UNCHANGED <<model, soloVars, concVars, cliVars>>

\* variant: the word joins the current chunk whatever the count
ChunkAccumulateAlways ==
    /\ chunkPc = "loop"
    /\ wordIndex <= Len(words)
    /\ currentChunk' = testChunk(currentChunk, words[wordIndex])
    /\ wordIndex' = wordIndex + 1
    /\ UNCHANGED <<t, content, maxTokens, encoding, badRunes, chunkPc, words, chunkIndex,
                   chunks, count>>
    /\ UNCHANGED <<arg, err, lookedUp>>
    /\ UNCHANGED <<model, soloVars, concVars, cliVars>>

\* loop body: the word joins the current chunk
ChunkAccumulate ==
    /\ chunkPc = "loop"
    /\ wordIndex <= Len(words)
    /\ ~(/\ CountTokens(t, testChunk(currentChunk, words[wordIndex])) > maxTokens
         /\ currentChunk # <<>>)
    /\ currentChunk' = testChunk(currentChunk, words[wordIndex])
    /\ wordIndex' = wordIndex + 1
    /\ UNCHANGED <<t, content, maxTokens, encoding, badRunes, chunkPc, words, chunkIndex,
                   chunks, count>>
    /\ UNCHANGED <<arg, err, lookedUp>>
    /\ UNCHANGED <<model, soloVars, concVars, cliVars>>

\* after the loop: the remaining content becomes the final chunk
ChunkReturn ==
    /\ chunkPc = "loop"
    /\ wordIndex > Len(words)
    /\ chunks' = IF currentChunk # <<>>
                 THEN Append(chunks, ChunkInfo(chunkIndex, CountTokens(t, currentChunk),
                                               currentChunk))
                 ELSE chunks
    /\ chunkPc' = "returned"
    /\ UNCHANGED <<t, content, maxTokens, encoding, badRunes, words, wordIndex, currentChunk,
                   chunkIndex, count>>
    /\ UNCHANGED <<arg, err, lookedUp>>
    /\ UNCHANGED <<model, soloVars, concVars, cliVars>>

\* the models of the -model flag and of TestCountTokensForModel
Models == {"gpt-4", "text-davinci-003", "gpt-2", "invalid-model"}

\* the encoding tokenizer.ForModel selects for each model it knows
ModelEncodings ==
    [ m \in {"gpt-4", "text-davinci-003", "gpt-2"} |->
        IF m = "gpt-4" THEN "cl100k_base"
        ELSE IF m = "text-davinci-003" THEN "p50k_base"
        ELSE "gpt2" ]

\* tokenizer.ForModel(model): an unknown model, or a model whose encoding is
\* not supported, is an error
ForModel(m) ==
    IF m \in DOMAIN ModelEncodings
    THEN Get(ModelEncodings[m])
    ELSE [ err |-> TRUE, codec |-> "" ]

Outcome(n, e, looked) == [ count |-> n, err |-> e, lookedUp |-> looked ]

\* variant: the model is looked up before the content is tested
CountTokensForModelLookupFirst(s, m) ==
    IF ForModel(m).err
    THEN Outcome(0, "failed to get tokenizer for model", TRUE)
    ELSE IF s = <<>>
         THEN Outcome(0, "nil", TRUE)
         ELSE Outcome(Len(encodeLoop(ForModel(m).codec, s)), "nil", TRUE)

\* t.CountTokensForModel(content, model)
CountTokensForModel(s, m) ==
    IF s = <<>>
    THEN Outcome(0, "nil", FALSE)
    ELSE LET tiktoken == ForModel(m)
         IN  IF tiktoken.err
             THEN Outcome(0, "failed to get tokenizer for model", TRUE)
             ELSE LET encoded == Encode(tiktoken.codec, s)
                  IN  IF encoded.err
                      THEN Outcome(0, "failed to encode content with model", TRUE)
                      ELSE Outcome(Len(encoded.tokens), "nil", TRUE)

\* t.CountTokensForEncoding(content, encoding)
CountTokensForEncoding(s, enc) ==
    IF s = <<>>
    THEN Outcome(0, "nil", FALSE)
    ELSE LET tiktoken == Get(enc)
         IN  IF tiktoken.err
             THEN Outcome(0, "failed to get tokenizer for encoding", TRUE)
             ELSE LET encoded == Encode(tiktoken.codec, s)
                  IN  IF encoded.err
                      THEN Outcome(0, "failed to encode content with encoding", TRUE)
                      ELSE Outcome(Len(encoded.tokens), "nil", TRUE)

\* tok.CountTokensForModel(content, m) on a default adapter
CallCountTokensForModel ==
    /\ chunkPc = "idle"
    /\ \E m \in Models :
        /\ arg' = m
        /\ count' = CountTokensForModel(content, m).count
        /\ err' = CountTokensForModel(content, m).err
        /\ lookedUp' = CountTokensForModel(content, m).lookedUp
    /\ t' = NewTokenizer
    /\ chunkPc' = "countedForModel"
    /\ UNCHANGED <<content, maxTokens, encoding, badRunes, words, wordIndex, currentChunk,
                   chunkIndex, chunks>>
    /\ UNCHANGED <<model, soloVars, concVars, cliVars>>

\* tok.CountTokensForEncoding(content, enc) on a default adapter
CallCountTokensForEncoding ==
    /\ chunkPc = "idle"
    /\ \E enc \in {Cl100kBase, "r50k_base", "invalid"} :
        /\ arg' = enc
        /\ count' = CountTokensForEncoding(content, enc).count
        /\ err' = CountTokensForEncoding(content, enc).err
        /\ lookedUp' = CountTokensForEncoding(content, enc).lookedUp
    /\ t' = NewTokenizer
    /\ chunkPc' = "countedForEncoding"
    /\ UNCHANGED <<content, maxTokens, encoding, badRunes, words, wordIndex, currentChunk,
                   chunkIndex, chunks>>
    /\ UNCHANGED <<model, soloVars, concVars, cliVars>>

ChunkNext ==
    \/ CallCountTokens
    \/ CallChunkText
    \/ ChunkFinalize
    \/ ChunkAccumulate
    \/ ChunkReturn
    \/ CallCountTokensForModel
    \/ CallCountTokensForEncoding

ChunkSpec == ChunkInit /\ [][ChunkNext]_vars

ChunkTypeOK ==
    /\ t \in [defaultEncoding : {"", Cl100kBase} \cup Encodings]
    /\ content \in ChunkTexts
    /\ maxTokens \in Budgets
    /\ chunkPc \in {"idle", "loop", "returned", "counted", "countedForModel",
                   "countedForEncoding"}
    /\ arg \in {""} \cup Models \cup Encodings \cup {Cl100kBase}
    /\ lookedUp \in BOOLEAN
    /\ wordIndex \in 0..(MaxTextLen + 1)
    /\ chunkIndex \in 0..MaxTextLen
    /\ count \in 0..MaxTextLen
    /\ \A i \in 1..Len(chunks) : chunks[i].Tokens \in 0..MaxTextLen

\* C18: every chunk returned by chunkText has Tokens <= maxTokens.
C18_WithinBudget ==
    chunkPc = "returned" => \A i \in 1..Len(chunks) : chunks[i].Tokens <= maxTokens

\* positions where a whitespace-separated word of s starts
WordStarts(s) == { i \in 1..Len(s) : ~IsSpace(s[i]) /\ (i = 1 \/ IsSpace(s[i - 1])) }

\* the word of s that starts at position i
WordAt(s, i) ==
    LET ends == { j \in i..Len(s) : \A k \in i..j : ~IsSpace(s[k]) }
        j == CHOOSE m \in ends : \A k \in ends : k <= m
    IN  SubSeq(s, i, j)

\* the whitespace-separated words of s, in order
WordsOf(s) ==
    [ n \in 1..Cardinality(WordStarts(s)) |->
        WordAt(s, CHOOSE i \in WordStarts(s) :
                      Cardinality({ j \in WordStarts(s) : j < i }) = n - 1) ]

RECURSIVE JoinSpace(_)
JoinSpace(parts) ==
    IF parts = <<>>
    THEN <<>>
    ELSE IF Len(parts) = 1
         THEN parts[1]
         ELSE parts[1] \o <<32>> \o JoinSpace(Tail(parts))

ChunkTextsOf(cs) == [ i \in 1..Len(cs) |-> cs[i].Text ]

\* C19: chunkText returns an ordered partition of the input's
\* whitespace-separated words: the chunk at position i has Index i, no chunk is
\* empty, the chunk texts joined with single spaces are exactly the words
\* joined with single spaces, and a text without words gives zero chunks.
C19_OrderedPartition ==
    chunkPc = "returned" =>
        /\ \A i \in 1..Len(chunks) : chunks[i].Index = i - 1 /\ chunks[i].Text # <<>>
        /\ JoinSpace(ChunkTextsOf(chunks)) = JoinSpace(WordsOf(content))
        /\ \A i \in 1..Len(chunks) :
             \E a \in 1..Len(WordsOf(content)) : \E b \in a..Len(WordsOf(content)) :
                 chunks[i].Text = JoinSpace(SubSeq(WordsOf(content), a, b))
        /\ WordsOf(content) = <<>> => chunks = <<>>

\* "a\nb a" under budget 1: three chunks a, b, a
C19_Witness ==
    /\ chunkPc = "returned"
    /\ content = <<97, 10, 98, 32, 97>>
    /\ Len(chunks) = 3
    /\ chunks[3] = [Index |-> 2, Tokens |-> 1, Text |-> <<97>>]

\* whitespace only: zero chunks
C19_WitnessBlank ==
    /\ chunkPc = "returned"
    /\ content = <<32, 10>>
    /\ chunks = <<>>

\* C20: CountTokens has no error outcome and never returns a negative number:
\* 0 for empty content, the encoder's token count when the encoding lookup and
\* the encoding both succeed, otherwise the number of whitespace-separated
\* words of the content.
C20_CountOrFallback ==
    chunkPc = "counted" =>
        /\ count \in Nat
        /\ content = <<>> => count = 0
        /\ (content # <<>> /\ ~Get(t.defaultEncoding).err
                /\ ~Encode(t.defaultEncoding, content).err)
             => count = Len(Encode(t.defaultEncoding, content).tokens)
        /\ (content # <<>> /\ (Get(t.defaultEncoding).err
                \/ Encode(t.defaultEncoding, content).err))
             => count = Len(WordsOf(content))

\* the lookup fails for "ab  a": the two words are counted
C20_Witness ==
    /\ chunkPc = "counted"
    /\ t.defaultEncoding = "invalid"
    /\ content = <<97, 98, 32, 32, 97>>
    /\ count = 2

\* Encode fails on 'b' under the default encoding: the words are counted
C20_WitnessEncodeFails ==
    /\ chunkPc = "counted"
    /\ t.defaultEncoding = Cl100kBase
    /\ badRunes = {98}
    /\ content = <<97, 97, 10, 98>>
    /\ count = 2

\* both succeed on "aa ab": the encoder's three tokens
C20_WitnessEncoded ==
    /\ chunkPc = "counted"
    /\ t.defaultEncoding = Cl100kBase
    /\ badRunes = {}
    /\ content = <<97, 97, 32, 97, 98>>
    /\ count = 3

\* the models whose codec tokenizer.ForModel can build
UsableModels == {"gpt-4", "text-davinci-003"}

\* the encodings whose codec tokenizer.Get can build
UsableEncodings == {"cl100k_base", "r50k_base", "p50k_base"}

\* the codec's Encode returns an error on s
EncodeFails(s) == \E i \in 1..Len(s) : s[i] \in badRunes

\* C21: CountTokensForModel and CountTokensForEncoding return count 0 with a
\* non-nil error when the content is non-empty and the model/encoding is
\* unknown or encoding fails, and return (0, nil) for empty content without
\* looking the model/encoding up.
C21_ErrorsOnlyForNonEmpty ==
    /\ chunkPc = "countedForModel" =>
        /\ (content # <<>> /\ (arg \notin UsableModels \/ EncodeFails(content)))
             => count = 0 /\ err # "nil"
        /\ content = <<>> => count = 0 /\ err = "nil" /\ ~lookedUp
    /\ chunkPc = "countedForEncoding" =>
        /\ (content # <<>> /\ (arg \notin UsableEncodings \/ EncodeFails(content)))
             => count = 0 /\ err # "nil"
        /\ content = <<>> => count = 0 /\ err = "nil" /\ ~lookedUp

\* empty content with an unknown model: no error
C21_Witness ==
    /\ chunkPc = "countedForModel"
    /\ content = <<>>
    /\ arg = "invalid-model"
    /\ count = 0
    /\ err = "nil"

\* non-empty content with an unknown encoding: an error and count 0
C21_WitnessUnknownEncoding ==
    /\ chunkPc = "countedForEncoding"
    /\ content = <<97, 32, 97>>
    /\ arg = "invalid"
    /\ count = 0
    /\ err = "failed to get tokenizer for encoding"

\* Encode fails under a known model: an error and count 0
C21_WitnessEncodeFails ==
    /\ chunkPc = "countedForModel"
    /\ content = <<97, 98>>
    /\ arg = "gpt-4"
    /\ badRunes = {98}
    /\ count = 0
    /\ err = "failed to encode content with model"

\* C27: any chunk of two or more words was accepted with a measured token
\* count <= maxTokens; a chunk exceeds maxTokens only if it is a single word
\* whose own token count exceeds maxTokens.
C27_OnlySingleWordsExceed ==
    /\ chunkPc \in {"loop", "returned"} =>
        \A i \in 1..Len(chunks) :
            /\ chunks[i].Tokens = CountTokens(t, chunks[i].Text)
            /\ Len(WordsOf(chunks[i].Text)) >= 2 => chunks[i].Tokens <= maxTokens
            /\ chunks[i].Tokens > maxTokens =>
                /\ Len(WordsOf(chunks[i].Text)) = 1
                /\ CountTokens(t, WordsOf(chunks[i].Text)[1]) > maxTokens
    /\ (chunkPc = "loop" /\ Len(WordsOf(currentChunk)) >= 2)
         => CountTokens(t, currentChunk) <= maxTokens

\* "aa ab" under budget 1: the over-budget single word "aa", then "ab"
C27_Witness ==
    /\ chunkPc = "returned"
    /\ maxTokens = 1
    /\ encoding = ""
    /\ badRunes = {}
    /\ content = <<97, 97, 32, 97, 98>>
    /\ Len(chunks) = 2
    /\ chunks[1] = [Index |-> 0, Tokens |-> 2, Text |-> <<97, 97>>]
    /\ chunks[2] = [Index |-> 1, Tokens |-> 1, Text |-> <<97, 98>>]

\* a chunk of two words within the budget
C27_WitnessTwoWords ==
    /\ chunkPc = "returned"
    /\ maxTokens = 2
    /\ \E i \in 1..Len(chunks) :
         Len(WordsOf(chunks[i].Text)) = 2 /\ chunks[i].Tokens = 2

\* C23: an ASCII special character is a hard run boundary: for all texts x, y
\* and any ASCII special character s, EstimateTokens(x + s + y) =
\* EstimateTokens(x) + 1 + EstimateTokens(y).
C23_SpecialIsBoundary ==
    Done("EstimateTokens") =>
        \A i \in 1..Len(text) :
            text[i] \in ASCIISpecial =>
                tokens = EstimateTokens(SubSeq(text, 1, i - 1)) + 1
                         + EstimateTokens(SubSeq(text, i + 1, Len(text)))

\* "a a": the space splits what would be a run of two into 1 + 1 + 1
C23_Witness ==
    /\ Done("EstimateTokens")
    /\ text = <<97, 32, 97>>
    /\ tokens = 3

\* a code point that Normalize removes
Dropped(c) == Unmappable(c) \/ c \in AllMarks

RECURSIVE Strip(_)
Strip(s) ==
    IF s = <<>> THEN <<>>
    ELSE IF Dropped(Head(s)) THEN Strip(Tail(s)) ELSE <<Head(s)>> \o Strip(Tail(s))

\* C24: dropping happens before counting: EstimateTokens(x) =
\* EstimateTokens(Normalize(x)), and a code point removed by Normalize costs
\* zero tokens and does not end a run.
C24_DropBeforeCount ==
    Done("EstimateTokens") =>
        /\ fed => text = Normalize(first) /\ tokens = EstimateTokens(first)
        /\ tokens = EstimateTokens(Strip(text))
        /\ tokens = SpecialsIn(Strip(Normalize(text)))
                    + RunCost(Strip(Normalize(text)), RunStarts(Strip(Normalize(text))))

\* 'a', U+4E16, 'a' is one run of two: 1 token
C24_Witness ==
    /\ Done("EstimateTokens")
    /\ ~fed
    /\ text = <<97, 19990, 97>>
    /\ tokens = 1

\* the estimate of the Normalize result of 'a', U+4E16, 'a'
C24_WitnessFed ==
    /\ Done("EstimateTokens")
    /\ fed
    /\ first = <<97, 19990, 97>>
    /\ text = <<97, 97>>
    /\ tokens = 1

\* the part of the normalized text the loop has consumed
Consumed == SubSeq(normalized, 1, pos - 1)

\* C25: the counting loop starts with run = 0 and total = 0; an ordinary
\* character increments run and leaves total unchanged; a special character
\* adds ceil(run/2) + 1 to total and leaves run = 0; after each step
\* total + ceil(run/2) is the estimate of the prefix consumed so far, and
\* total never decreases.
C25_LoopMachine ==
    /\ [](pc = "count" =>
            tokenCount + CeilHalf(charCount)
                = SpecialsIn(Consumed) + RunCost(Consumed, RunStarts(Consumed)))
    /\ [][(pc = "idle" /\ pc' = "count") => (tokenCount' = 0 /\ charCount' = 0)]_vars
    /\ [][(pc = "count" /\ pc' = "count") =>
            IF Ordinary(normalized[pos])
            THEN charCount' = charCount + 1 /\ tokenCount' = tokenCount
            ELSE tokenCount' = tokenCount + CeilHalf(charCount) + 1 /\ charCount' = 0]_vars
    /\ [][pc = "count" => tokenCount' >= tokenCount]_vars

\* five characters into "abc123def": total 0, run 5
C25_Witness ==
    /\ pc = "count"
    /\ text = NumbersAndLetters
    /\ pos = 6
    /\ charCount = 5
    /\ tokenCount = 0

\* a special character after a run of one: total 2, run 0
C25_WitnessFlush ==
    /\ pc = "count"
    /\ text = <<97, 33, 90>>
    /\ pos = 3
    /\ charCount = 0
    /\ tokenCount = 2

\* C26: with n the number of code points of Normalize(text),
\* ceil(n/2) <= EstimateTokens(text) <= n, and the estimate is 0 exactly when
\* Normalize(text) is empty.
C26_Bounds ==
    Done("EstimateTokens") =>
        /\ CeilHalf(Len(Normalize(text))) <= tokens
        /\ tokens <= Len(Normalize(text))
        /\ tokens = 0 <=> Normalize(text) = <<>>

\* "abc123def": n = 9, estimate 5 = ceil(9/2)
C26_Witness ==
    /\ Done("EstimateTokens")
    /\ text = NumbersAndLetters
    /\ tokens = 5

\* only special characters: the estimate is n
C26_WitnessUpper ==
    /\ Done("EstimateTokens")
    /\ text = OnlySpecial
    /\ tokens = 10

(***************************************************************************)
(* The estimator CLI: one run of the process, from the parsed flags to its *)
(* exit.                                                                   *)
(***************************************************************************)
\* most positional arguments
MaxArgs == 2

\* "", " \n", "a", "caf\u00E9"
CliTexts == { <<>>, <<32, 10>>, <<97>>, CafeUnicode }

\* values of one positional argument
ArgValues == { <<>>, <<97>>, CafeUnicode }

ArgLists == UNION { [1..n -> ArgValues] : n \in 0..MaxArgs }

\* what os.ReadFile or io.ReadAll gives: an error, or the data
ReadOutcomes == { [err |-> TRUE, data |-> <<>>] } \cup { [err |-> FALSE, data |-> d] : d \in CliTexts }

\* cliFlags as parseFlags returns it
FlagValues ==
    [ showVersion : BOOLEAN, outputJSON : BOOLEAN, showNormalized : BOOLEAN,
      inputFile : {"", "input.txt"}, text : { <<>>, <<97>>, CafeUnicode } ]

RECURSIVE Join(_, _)
\* strings.Join(elems, sep)
Join(elems, sep) ==
    IF elems = <<>> THEN <<>>
    ELSE IF Len(elems) = 1 THEN elems[1]
    ELSE elems[1] \o sep \o Join(Tail(elems), sep)

RECURSIVE TrimLeft(_)
TrimLeft(s) == IF s # <<>> /\ IsSpace(Head(s)) THEN TrimLeft(Tail(s)) ELSE s

RECURSIVE TrimRight(_)
TrimRight(s) ==
    IF s # <<>> /\ IsSpace(s[Len(s)]) THEN TrimRight(SubSeq(s, 1, Len(s) - 1)) ELSE s

\* strings.TrimSpace(s)
TrimSpace(s) == TrimRight(TrimLeft(s))

\* variant: only the empty string is rejected
ensureNonEmptyExact(inputStr) == inputStr = <<>>

\* ensureNonEmpty(inputStr): TRUE when it returns ErrNoInput
ensureNonEmpty(inputStr) == TrimSpace(inputStr) = <<>>

\* tokenize(text)
tokenize(txt) ==
    [ Text |-> txt, Model |-> GetModel, OriginalText |-> <<>>, NormalizedText |-> <<>>,
      TokenCount |-> EstimateTokens(txt) ]

\* tokenizeNormalized(text)
tokenizeNormalized(txt) ==
    [ Text |-> txt, Model |-> GetModel, OriginalText |-> txt,
      NormalizedText |-> Normalize(txt), TokenCount |-> EstimateTokens(txt) ]

\* buildResult(flags, input)
buildResult(fl, txt) == IF fl.showNormalized THEN tokenizeNormalized(txt) ELSE tokenize(txt)

Stdout(what) == [ stream |-> "stdout", what |-> what ]

Stderr(what) == [ stream |-> "stderr", what |-> what ]

\* emitResult(flags, r): what it writes
emitResult(fl) == IF fl.outputJSON THEN Stdout("result json") ELSE Stdout("result plain")

\* the flags are parsed; nothing has been read or written
CliInit ==
    /\ model = DefaultModel
    /\ SoloOff
    /\ ConcOff
    /\ ChunkOff
    /\ flags \in FlagValues
    /\ args \in ArgLists
    /\ stdin \in ReadOutcomes
    /\ fileData \in ReadOutcomes
    /\ textInput = <<>>
    /\ reads = <<>>
    /\ result = None
    /\ cfg = None
    /\ ran = <<>>
    /\ out = <<>>
    /\ exit = 0
    /\ cliPc = "start"

\* run: -version prints the version and returns nil
CliVersion ==
    /\ cliPc = "start"
    /\ flags.showVersion
    /\ out' = Append(out, Stdout("version"))
    /\ exit' = 0
    /\ cliPc' = "exited"
    /\ UNCHANGED <<flags, args, stdin, fileData, textInput, reads, result, cfg, ran>>
    /\ UNCHANGED <<model, soloVars, concVars, chunkVars>>

\* readInputNonText: a -file path is given, the file is read
CliReadFile ==
    /\ cliPc = "start"
    /\ ~flags.showVersion
    /\ flags.inputFile # ""
    /\ reads' = Append(reads, "file")
    /\ IF fileData.err
       THEN /\ out' = Append(out, Stderr("failed to open file"))
            /\ exit' = 1
            /\ cliPc' = "exited"
            /\ UNCHANGED textInput
       ELSE /\ textInput' = fileData.data
            /\ cliPc' = "have"
            /\ UNCHANGED <<out, exit>>
    /\ UNCHANGED <<flags, args, stdin, fileData, result, cfg, ran>>
    /\ UNCHANGED <<model, soloVars, concVars, chunkVars>>

\* readInputNonText: no -file, the joined positional arguments are not empty
CliReadArgs ==
    /\ cliPc = "start"
    /\ ~flags.showVersion
    /\ flags.inputFile = ""
    /\ Join(args, <<32>>) # <<>>
    /\ reads' = Append(reads, "args")
    /\ textInput' = Join(args, <<32>>)
    /\ cliPc' = "have"
    /\ UNCHANGED <<flags, args, stdin, fileData, result, cfg, ran, out, exit>>
    /\ UNCHANGED <<model, soloVars, concVars, chunkVars>>

\* variant: standard input is read whatever the positional arguments are
CliReadStdinAlways ==
    /\ cliPc = "start"
    /\ ~flags.showVersion
    /\ flags.inputFile = ""
    /\ reads' = reads \o <<"args", "stdin">>
    /\ textInput' = stdin.data
    /\ cliPc' = "have"
    /\ UNCHANGED <<flags, args, stdin, fileData, result, cfg, ran, out, exit>>
    /\ UNCHANGED <<model, soloVars, concVars, chunkVars>>

\* readInputNonText: no -file and no positional text, standard input is read
CliReadStdin ==
    /\ cliPc = "start"
    /\ ~flags.showVersion
    /\ flags.inputFile = ""
    /\ Join(args, <<32>>) = <<>>
    /\ reads' = reads \o <<"args", "stdin">>
    /\ IF stdin.err
       THEN /\ out' = Append(out, Stderr("read stdin"))
            /\ exit' = 1
            /\ cliPc' = "exited"
            /\ UNCHANGED textInput
       ELSE /\ textInput' = stdin.data
            /\ cliPc' = "have"
            /\ UNCHANGED <<out, exit>>
    /\ UNCHANGED <<flags, args, stdin, fileData, result, cfg, ran>>
    /\ UNCHANGED <<model, soloVars, concVars, chunkVars>>

\* requireInput rejects the input; main prints the error and exits with 1
CliRejectEmpty ==
    /\ cliPc = "have"
    /\ ensureNonEmpty(textInput)
    /\ out' = out \o <<Stderr("no input"), Stdout("usage"), Stderr("no input")>>
    /\ exit' = 1
    /\ cliPc' = "exited"
    /\ UNCHANGED <<flags, args, stdin, fileData, textInput, reads, result, cfg, ran>>
    /\ UNCHANGED <<model, soloVars, concVars, chunkVars>>

\* process: the result is built and emitted
CliProcess ==
    /\ cliPc = "have"
    /\ ~ensureNonEmpty(textInput)
    /\ result' = buildResult(flags, textInput)
    /\ out' = Append(out, emitResult(flags))
    /\ exit' = 0
    /\ cliPc' = "exited"
    /\ UNCHANGED <<flags, args, stdin, fileData, textInput, reads, cfg, ran>>
    /\ UNCHANGED <<model, soloVars, concVars, chunkVars>>

CliNext ==
    \/ CliVersion
    \/ CliReadFile
    \/ CliReadArgs
    \/ CliReadStdin
    \/ CliRejectEmpty
    \/ CliProcess

CliSpec == CliInit /\ [][CliNext]_vars

CliTypeOK ==
    /\ flags \in FlagValues
    /\ args \in ArgLists
    /\ cliPc \in {"start", "have", "exited"}
    /\ exit \in {0, 1}
    /\ Len(reads) <= 2
    /\ Len(out) <= 3

\* the run ended with a result computed from txt
ResultFrom(txt) ==
    /\ exit = 0
    /\ result # None
    /\ result.Text = txt
    /\ result.TokenCount = EstimateTokens(txt)

\* C22: in the estimator CLI, when -text VALUE is given (and no -file), the
\* result is computed from VALUE.
C22_TextFlagIsUsed ==
    (cliPc = "exited" /\ ~flags.showVersion /\ flags.inputFile = "" /\ flags.text # <<>>)
        => ResultFrom(flags.text)

\* all of s is white space
AllSpace(s) == \A i \in 1..Len(s) : IsSpace(s[i])

\* C28: the estimator CLI resolves its input in a fixed order: the -file path
\* if given, otherwise the positional arguments joined by single spaces if
\* that is non-empty, otherwise all of standard input; a later source is
\* consulted only when every earlier one is absent.
C28_InputOrder ==
    (cliPc \in {"have", "exited"} /\ ~flags.showVersion) =>
        /\ flags.inputFile # "" =>
             /\ reads = <<"file">>
             /\ ~fileData.err => textInput = fileData.data
        /\ (flags.inputFile = "" /\ JoinSpace(args) # <<>>) =>
             /\ reads = <<"args">>
             /\ textInput = JoinSpace(args)
        /\ (flags.inputFile = "" /\ JoinSpace(args) = <<>>) =>
             /\ reads = <<"args", "stdin">>
             /\ ~stdin.err => textInput = stdin.data

\* two arguments, no -file: "a caf\u00E9", standard input not read
C28_Witness ==
    /\ cliPc = "exited"
    /\ flags.inputFile = ""
    /\ args = << <<97>>, CafeUnicode >>
    /\ stdin = [err |-> FALSE, data |-> <<97>>]
    /\ textInput = <<97, 32, 99, 97, 102, 233>>
    /\ reads = <<"args">>
    /\ exit = 0

\* no -file and one empty argument: standard input is read
C28_WitnessStdin ==
    /\ cliPc = "exited"
    /\ flags.inputFile = ""
    /\ args = << <<>> >>
    /\ textInput = CafeUnicode
    /\ reads = <<"args", "stdin">>

\* -file wins over arguments and standard input
C28_WitnessFile ==
    /\ cliPc = "exited"
    /\ flags.inputFile = "input.txt"
    /\ args = << <<97>> >>
    /\ fileData = [err |-> FALSE, data |-> CafeUnicode]
    /\ textInput = CafeUnicode
    /\ reads = <<"file">>

\* a result was written
ResultEmitted == \E i \in 1..Len(out) : out[i].what \in {"result json", "result plain"}

\* C29: in the estimator CLI, input that is empty or only whitespace is
\* rejected with the 'no input' error: no tokenization is run, no result is
\* emitted and the run ends with exit status 1; with -version the version is
\* printed and the run succeeds before any input is read.
C29_NoInputRejected ==
    cliPc = "exited" =>
        /\ flags.showVersion =>
             out = <<Stdout("version")>> /\ exit = 0 /\ reads = <<>> /\ result = None
        /\ (~flags.showVersion /\ out # <<Stderr("failed to open file")>>
                /\ out # <<Stderr("read stdin")>> /\ AllSpace(textInput)) =>
             /\ exit = 1
             /\ result = None
             /\ ~ResultEmitted
             /\ out[Len(out)] = Stderr("no input")

\* standard input holds only white space
C29_Witness ==
    /\ cliPc = "exited"
    /\ ~flags.showVersion
    /\ reads = <<"args", "stdin">>
    /\ textInput = <<32, 10>>
    /\ exit = 1
    /\ out = <<Stderr("no input"), Stdout("usage"), Stderr("no input")>>

\* -version with a -file that cannot be read
C29_WitnessVersion ==
    /\ cliPc = "exited"
    /\ flags.showVersion
    /\ flags.inputFile = "input.txt"
    /\ fileData.err
    /\ exit = 0

(***************************************************************************)
(* The token-budget CLI (cmd/ai-tokenizer): one run of the process, from   *)
(* the parsed flags to its exit.                                           *)
(***************************************************************************)
defaultModel == "gpt-4"

defaultMaxContext == 8192

ErrTextRequired == "text content is required for estimation"

\* -text values: "", "ab a", "1,2", "1, a", "9"
BudgetTexts == { <<>>, <<97, 98, 32, 97>>, <<49, 44, 50>>, <<49, 44, 32, 97>>, <<57>> }

\* config as parseFlags returns it
ConfigValues ==
    [ text : BudgetTexts, model : {defaultModel, "gpt-2", "invalid-model"},
      budget : {0, 2}, estimate : BOOLEAN, chunk : BOOLEAN, chunkSize : {0, 1},
      help : BOOLEAN, json : BOOLEAN, encoding : {"", "invalid"},
      decode : BOOLEAN, encode : BOOLEAN ]

\* variant: -estimate is tested before -encode and -decode
selectModeEstimateFirst(c) ==
    IF c.help THEN "help"
    ELSE IF c.estimate THEN "estimate"
    ELSE IF c.encode THEN "encode"
    ELSE IF c.decode THEN "decode"
    ELSE IF c.chunk THEN "chunk"
    ELSE "help"

\* the chain of tests in main
selectMode(c) ==
    IF c.help THEN "help"
    ELSE IF c.encode THEN "encode"
    ELSE IF c.decode THEN "decode"
    ELSE IF c.estimate THEN "estimate"
    ELSE IF c.chunk THEN "chunk"
    ELSE "help"

\* handleError(err, useJSON): what it writes before os.Exit(1)
handleError(e, useJSON) ==
    IF useJSON THEN [stream |-> "stdout", what |-> "error", err |-> e]
    ELSE [stream |-> "stderr", what |-> "error", err |-> e]

\* outputResult(result, useJSON): what it writes
outputResult(useJSON) ==
    IF useJSON THEN [stream |-> "stdout", what |-> "result json", err |-> "nil"]
    ELSE [stream |-> "stdout", what |-> "result plain", err |-> "nil"]

\* the codec the runners use: by -encoding if given, else by -model
CodecFor(c) == IF c.encoding # "" THEN Get(c.encoding) ELSE ForModel(c.model)

\* estimateTokens(text) of the CLI: a quarter of the length in bytes
estimateTokens(txt) == ByteLen(txt) \div 4

\* MaxContext of getModelCapability(model)
MaxContext(m) ==
    IF m = "gpt-4" THEN 8192 ELSE IF m = "gpt-2" THEN 2048 ELSE defaultMaxContext

RECURSIVE chunkLoop(_, _, _, _, _, _)
chunkLoop(tk, ws, cur, index, acc, maxTok) ==
    IF ws = <<>>
    THEN IF cur # <<>> THEN Append(acc, ChunkInfo(index, CountTokens(tk, cur), cur)) ELSE acc
    ELSE IF CountTokens(tk, testChunk(cur, Head(ws))) > maxTok /\ cur # <<>>
         THEN chunkLoop(tk, Tail(ws), Head(ws), index + 1,
                        Append(acc, ChunkInfo(index, CountTokens(tk, cur), cur)), maxTok)
         ELSE chunkLoop(tk, Tail(ws), testChunk(cur, Head(ws)), index, acc, maxTok)

\* chunkText(text, maxTokens, model, encoding)
chunkText(txt, maxTok, enc) == chunkLoop(TokenizerFor(enc), Fields(txt), <<>>, 0, <<>>, maxTok)

\* the tokens every codec can decode, by token id; the codec's own tokens follow
TokenTable(codec) ==
    << <<97>>, <<98>>, <<32>>, <<10>> >>
    \o (IF codec = "cl100k_base"
        THEN << <<97, 98>>, <<32, 97>>, <<32, 98>>, <<32, 97, 98>> >>
        ELSE << <<32, 97>>, <<32, 98>> >>)

RECURSIVE splitLoop(_, _, _)
splitLoop(rest, piece, acc) ==
    IF rest = <<>> THEN Append(acc, piece)
    ELSE IF Head(rest) = 44 THEN splitLoop(Tail(rest), <<>>, Append(acc, piece))
    ELSE splitLoop(Tail(rest), Append(piece, Head(rest)), acc)

\* strings.Split(s, ",")
SplitComma(s) == splitLoop(s, <<>>, <<>>)

IsDecimal(r) == r \in 48..57

RECURSIVE scanDigits(_, _)
scanDigits(s, n) ==
    IF s # <<>> /\ IsDecimal(Head(s)) THEN scanDigits(Tail(s), 10 * n + (Head(s) - 48)) ELSE n

\* fmt.Sscanf(tokenStr, "%d", &tokenID): the leading digits are the value
Sscanf(s) ==
    IF s # <<>> /\ IsDecimal(Head(s))
    THEN [ err |-> FALSE, value |-> scanDigits(s, 0) ]
    ELSE [ err |-> TRUE, value |-> 0 ]

RECURSIVE parseLoop(_, _)
\* the token ids of runDecode, or the first piece that is not a number
parseLoop(pieces, ids) ==
    IF pieces = <<>> THEN [ err |-> FALSE, ids |-> ids ]
    ELSE LET tokenStr == TrimSpace(Head(pieces))
         IN  IF tokenStr = <<>> THEN parseLoop(Tail(pieces), ids)
             ELSE IF Sscanf(tokenStr).err THEN [ err |-> TRUE, ids |-> ids ]
             ELSE parseLoop(Tail(pieces), Append(ids, Sscanf(tokenStr).value))

RECURSIVE decodeLoop(_, _)
decodeLoop(codec, ids) ==
    IF ids = <<>> THEN <<>>
    ELSE TokenTable(codec)[Head(ids) + 1] \o decodeLoop(codec, Tail(ids))

\* codec.Decode(tokenIDs): an id outside the vocabulary is an error
Decode(codec, ids) ==
    IF \E i \in 1..Len(ids) : ids[i] >= Len(TokenTable(codec))
    THEN [ err |-> TRUE, text |-> <<>> ]
    ELSE [ err |-> FALSE, text |-> decodeLoop(codec, ids) ]

TokenEstimate(m, n, budget, within, cs, enc, ids, decoded) ==
    [ Model |-> m, Tokens |-> n, Budget |-> budget, WithinBudget |-> within, Chunks |-> cs,
      Encoding |-> enc, TokenIDs |-> ids, DecodedText |-> decoded ]

\* the flags are parsed; nothing has run
BudgetInit ==
    /\ model = DefaultModel
    /\ SoloOff
    /\ ConcOff
    /\ t = [defaultEncoding |-> ""]
    /\ content = <<>>
    /\ maxTokens = 0
    /\ encoding = ""
    /\ badRunes \in { {}, {98} }
    /\ chunkPc = "off"
    /\ words = <<>>
    /\ wordIndex = 0
    /\ currentChunk = <<>>
    /\ chunkIndex = 0
    /\ chunks = <<>>
    /\ count = 0
    /\ arg = ""
    /\ err = "nil"
    /\ lookedUp = FALSE
    /\ flags = None
    /\ args = <<>>
    /\ stdin = None
    /\ fileData = None
    /\ textInput = <<>>
    /\ reads = <<>>
    /\ result = None
    /\ cfg \in ConfigValues
    /\ ran = <<>>
    /\ out = <<>>
    /\ exit = 0
    /\ cliPc = "start"

\* what every run of the token-budget CLI leaves alone
budgetFrame ==
    <<model, soloVars, concVars, chunkVars, flags, args, stdin, fileData, textInput, reads, cfg>>

\* the run ends in handleError(e, cfg.json)
Fail(mode, e) ==
    /\ ran' = Append(ran, mode)
    /\ out' = Append(out, handleError(e, cfg.json))
    /\ exit' = 1
    /\ cliPc' = "exited"
    /\ UNCHANGED result

\* the run ends in outputResult(r, cfg.json)
Succeed(mode, r) ==
    /\ ran' = Append(ran, mode)
    /\ result' = r
    /\ out' = Append(out, outputResult(cfg.json))
    /\ exit' = 0
    /\ cliPc' = "exited"

\* main: -help, or no mode flag at all
BudgetHelp ==
    /\ cliPc = "start"
    /\ selectMode(cfg) = "help"
    /\ ran' = Append(ran, "help")
    /\ out' = Append(out, [stream |-> "stdout", what |-> "help", err |-> "nil"])
    /\ exit' = 0
    /\ cliPc' = "exited"
    /\ UNCHANGED result
    /\ UNCHANGED budgetFrame

\* main: runEncode
BudgetEncode ==
    /\ cliPc = "start"
    /\ selectMode(cfg) = "encode"
    /\ IF cfg.text = <<>>
       THEN Fail("encode", ErrTextRequired)
       ELSE IF CodecFor(cfg).err \/ Encode(CodecFor(cfg).codec, cfg.text).err
            THEN Fail("encode", "encoding failed")
            ELSE LET tks == Encode(CodecFor(cfg).codec, cfg.text).tokens
                 IN  Succeed("encode", TokenEstimate(cfg.model, Len(tks), 0, FALSE, <<>>,
                                                     cfg.encoding, tks, <<>>))
    /\ UNCHANGED budgetFrame

\* main: runDecode
BudgetDecode ==
    /\ cliPc = "start"
    /\ selectMode(cfg) = "decode"
    /\ IF cfg.text = <<>>
       THEN Fail("decode", ErrTextRequired)
       ELSE LET parsed == parseLoop(SplitComma(cfg.text), <<>>)
            IN  IF parsed.err
                THEN Fail("decode", "invalid token ID")
                ELSE IF CodecFor(cfg).err \/ Decode(CodecFor(cfg).codec, parsed.ids).err
                     THEN Fail("decode", "decoding failed")
                     ELSE Succeed("decode",
                             TokenEstimate(cfg.model, Len(parsed.ids), 0, FALSE, <<>>,
                                           cfg.encoding, parsed.ids,
                                           Decode(CodecFor(cfg).codec, parsed.ids).text))
    /\ UNCHANGED budgetFrame

\* main: runEstimate
BudgetEstimate ==
    /\ cliPc = "start"
    /\ selectMode(cfg) = "estimate"
    /\ IF cfg.text = <<>>
       THEN Fail("estimate", ErrTextRequired)
       ELSE LET n == IF CodecFor(cfg).err \/ Encode(CodecFor(cfg).codec, cfg.text).err
                     THEN estimateTokens(cfg.text)
                     ELSE Len(Encode(CodecFor(cfg).codec, cfg.text).tokens)
                limit == IF cfg.budget > 0 THEN cfg.budget ELSE MaxContext(cfg.model)
            IN  Succeed("estimate", TokenEstimate(cfg.model, n, limit, n <= limit, <<>>,
                                                  cfg.encoding, <<>>, <<>>))
    /\ UNCHANGED budgetFrame

\* main: runChunking
BudgetChunking ==
    /\ cliPc = "start"
    /\ selectMode(cfg) = "chunk"
    /\ IF cfg.text = <<>>
       THEN Fail("chunk", ErrTextRequired)
       ELSE LET wanted == IF cfg.chunkSize # 0 THEN cfg.chunkSize
                          ELSE IF cfg.budget > 0 THEN cfg.budget
                          ELSE MaxContext(cfg.model)
                chunkSize == IF wanted <= 0 THEN defaultMaxContext ELSE wanted
                cs == chunkText(cfg.text, chunkSize, cfg.encoding)
            IN  Succeed("chunk", TokenEstimate(cfg.model, estimateTokens(cfg.text), chunkSize,
                                               Len(cs) = 1, cs, cfg.encoding, <<>>, <<>>))
    /\ UNCHANGED budgetFrame

BudgetNext ==
    \/ BudgetHelp
    \/ BudgetEncode
    \/ BudgetDecode
    \/ BudgetEstimate
    \/ BudgetChunking

BudgetSpec == BudgetInit /\ [][BudgetNext]_vars

BudgetTypeOK ==
    /\ cfg \in ConfigValues
    /\ cliPc \in {"start", "exited"}
    /\ exit \in {0, 1}
    /\ Len(ran) <= 1
    /\ Len(out) <= 1

\* the mode the priority help > encode > decode > estimate > chunk selects
PriorityMode ==
    LET set == { m \in {"help", "encode", "decode", "estimate", "chunk"} : cfg[m] }
        rank == [ m \in {"help", "encode", "decode", "estimate", "chunk"} |->
                    CASE m = "help" -> 1 [] m = "encode" -> 2 [] m = "decode" -> 3
                      [] m = "estimate" -> 4 [] m = "chunk" -> 5 ]
    IN  IF set = {} THEN "help"
        ELSE CHOOSE m \in set : \A o \in set : rank[m] <= rank[o]

\* C30: the token-budget CLI runs exactly one mode per invocation, chosen by
\* the priority help > encode > decode > estimate > chunk whatever other mode
\* flags are set; with no mode flag it shows help; every non-help mode with
\* empty -text ends in the 'text content is required' error with exit status 1
\* and no result output.
C30_OneModeByPriority ==
    /\ cliPc = "start" => ran = <<>>
    /\ cliPc = "exited" =>
        /\ ran = <<PriorityMode>>
        /\ PriorityMode = "help" => out[1].what = "help" /\ exit = 0
        /\ (PriorityMode # "help" /\ cfg.text = <<>>) =>
             /\ exit = 1
             /\ Len(out) = 1
             /\ out[1].what = "error"
             /\ out[1].err = "text content is required for estimation"
             /\ result = None

\* -chunk, -estimate and -decode set with empty -text: decode runs and fails
C30_Witness ==
    /\ cliPc = "exited"
    /\ cfg.chunk /\ cfg.estimate /\ cfg.decode /\ ~cfg.encode /\ ~cfg.help
    /\ cfg.text = <<>>
    /\ ran = <<"decode">>
    /\ exit = 1

\* no mode flag: help
C30_WitnessNoMode ==
    /\ cliPc = "exited"
    /\ ~cfg.chunk /\ ~cfg.estimate /\ ~cfg.decode /\ ~cfg.encode /\ ~cfg.help
    /\ ran = <<"help">>
    /\ exit = 0

\* -estimate and -chunk with a text: estimate runs and succeeds
C30_WitnessEstimate ==
    /\ cliPc = "exited"
    /\ cfg.chunk /\ cfg.estimate /\ ~cfg.decode /\ ~cfg.encode /\ ~cfg.help
    /\ cfg.text = <<97, 98, 32, 97>>
    /\ ran = <<"estimate">>
    /\ exit = 0
    /\ result.Tokens = 2

====
